---- MODULE Spec2Model ----
(***************************************************************************)
(* The advocates directory: the GET /api/advocates route handler           *)
(* (search filter, count query, LIMIT/OFFSET page query, error boundary)   *)
(* and the Home page component that calls it (debounced search term,       *)
(* pagination state, fetch effect with an AbortController).                *)
(*                                                                         *)
(* Text is a sequence of one-character strings, so that substring search,  *)
(* letter case, the years regular expression and the SQL LIKE wildcards    *)
(* are computed character by character.  A row of the advocates table is   *)
(* identified in a response by its primary key id, which is its position   *)
(* in the table.                                                           *)
(***************************************************************************)
EXTENDS Integers, Sequences, FiniteSets, TLC

VARIABLES
    request,        \* the last request an HTTP client sent to the route
    db,             \* how the database behaved while serving it
    response,       \* the route's answer to it
    advocates,      \* Home: useState<Advocate[]>([])
    searchTerm,     \* Home: useState<string>("")
    currentPage,    \* Home: useState<number>(1)
    totalPages,     \* Home: useState<number>(1)
    total,          \* Home: useState<number>(0)
    loading,        \* Home: useState<boolean>(false)
    error,          \* Home: useState<string | null>(null)
    debouncedValue, \* useDebounce: useState<T>(value)
    timer,          \* useDebounce: the pending setTimeout, if any
    effectDeps,     \* the [debouncedSearch, currentPage] the fetch effect last ran with
    requests,       \* every fetch the page has issued, oldest first
    filteredAdvocates \* Home (client-side filter): useState<Advocate[]>([])

apiVars == <<request, db, response>>
homeVars == <<advocates, searchTerm, currentPage, totalPages, total, loading,
              error, debouncedValue, timer, effectDeps, requests>>
vars == <<request, db, response, advocates, searchTerm, currentPage,
          totalPages, total, loading, error, debouncedValue, timer,
          effectDeps, requests, filteredAdvocates>>

(***************************************************************************)
(* Bounds of the model.                                                    *)
(***************************************************************************)
NumAdvocates == 23
MaxRequests == 5

(***************************************************************************)
(* Characters and text.                                                    *)
(***************************************************************************)
Digits == <<"0", "1", "2", "3", "4", "5", "6", "7", "8", "9">>
UpperCase == <<"A", "B", "C", "D", "E", "F", "G", "H", "I", "J", "K", "L", "M",
               "N", "O", "P", "Q", "R", "S", "T", "U", "V", "W", "X", "Y", "Z">>
LowerCase == <<"a", "b", "c", "d", "e", "f", "g", "h", "i", "j", "k", "l", "m",
               "n", "o", "p", "q", "r", "s", "t", "u", "v", "w", "x", "y", "z">>
WhiteSpace == {" ", "\t"}

IsDigit(c) == \E i \in 1..10 : Digits[i] = c
DigitValue(c) == (CHOOSE i \in 1..10 : Digits[i] = c) - 1

ToLowerChar(c) ==
    IF \E i \in 1..26 : UpperCase[i] = c
    THEN LowerCase[CHOOSE i \in 1..26 : UpperCase[i] = c]
    ELSE c

toLowerCase(s) == [i \in 1..Len(s) |-> ToLowerChar(s[i])]

Drop(s, k) == SubSeq(s, k + 1, Len(s))

StartsWith(s, w) == Len(s) >= Len(w) /\ SubSeq(s, 1, Len(w)) = w

RECURSIVE LeadingDigits(_)
LeadingDigits(s) ==
    IF s = <<>> \/ ~IsDigit(s[1]) THEN 0 ELSE 1 + LeadingDigits(Tail(s))

RECURSIVE LeadingSpaces(_)
LeadingSpaces(s) ==
    IF s = <<>> \/ s[1] \notin WhiteSpace THEN 0 ELSE 1 + LeadingSpaces(Tail(s))

\* The value of a run of decimal digits.
RECURSIVE DecimalValue(_)
DecimalValue(ds) ==
    IF ds = <<>> THEN 0
    ELSE 10 * DecimalValue(SubSeq(ds, 1, Len(ds) - 1)) + DigitValue(ds[Len(ds)])

\* A non-negative integer written as decimal text.
RECURSIVE NatToText(_)
NatToText(n) ==
    IF n < 10 THEN <<Digits[n + 1]>>
    ELSE NatToText(n \div 10) \o <<Digits[(n % 10) + 1]>>

\* number.toString() and the SQL cast integer::text.
ToText(n) == IF n < 0 THEN <<"-">> \o NatToText(0 - n) ELSE NatToText(n)

(***************************************************************************)
(* JavaScript numbers: an integer, NaN or Infinity.  JSON has no NaN and   *)
(* no Infinity: Response.json writes them as null.                         *)
(***************************************************************************)
Num(n) == [kind |-> "num", val |-> n]
NaN == [kind |-> "NaN", val |-> 0]
Infinity == [kind |-> "Infinity", val |-> 0]
Null == [kind |-> "null", val |-> 0]

IsNum(x) == x.kind = "num"

ToJson(x) == IF IsNum(x) THEN x ELSE Null

\* parseInt(text, 10): leading white space, an optional sign, then the longest
\* run of digits; NaN when there is none.
parseInt(text) ==
    LET t == Drop(text, LeadingSpaces(text))
        signed == t # <<>> /\ t[1] \in {"-", "+"}
        u == IF signed THEN Tail(t) ELSE t
        k == LeadingDigits(u)
        v == DecimalValue(SubSeq(u, 1, k))
    IN  IF k = 0 THEN NaN
        ELSE IF signed /\ t[1] = "-" THEN Num(0 - v) ELSE Num(v)

\* Mutant of Offset: page * limit.
Offset_FromPage(page, limit) ==
    IF IsNum(page) /\ IsNum(limit) THEN Num(page.val * limit.val) ELSE NaN

\* (page - 1) * limit
Offset(page, limit) ==
    IF IsNum(page) /\ IsNum(limit) THEN Num((page.val - 1) * limit.val) ELSE NaN

\* Mutant of CeilDiv: Math.floor in place of Math.ceil.
CeilDiv_Floor(t, l) ==
    IF ~IsNum(l) THEN NaN
    ELSE IF l.val = 0 THEN (IF t = 0 THEN NaN ELSE Infinity)
    ELSE IF l.val > 0 THEN Num(t \div l.val)
    ELSE Num(0 - ((t + (0 - l.val) - 1) \div (0 - l.val)))

\* Math.ceil(total / limit), total a count (>= 0).
CeilDiv(t, l) ==
    IF ~IsNum(l) THEN NaN
    ELSE IF l.val = 0 THEN (IF t = 0 THEN NaN ELSE Infinity)
    ELSE IF l.val > 0 THEN Num((t + l.val - 1) \div l.val)
    ELSE Num(0 - (t \div (0 - l.val)))

(***************************************************************************)
(* The advocates table.  Rows cycle through four people; years of          *)
(* experience and phone number vary with the id.                           *)
(***************************************************************************)
Person(k) ==
    CASE k = 0 -> [firstName |-> <<"J", "o", "h", "n">>,
                   lastName |-> <<"D", "o", "e">>,
                   city |-> <<"N", "e", "w", " ", "Y", "o", "r", "k">>,
                   degree |-> <<"M", "D">>,
                   specialties |-> << <<"B", "i", "p", "o", "l", "a", "r">>,
                                      <<"L", "G", "B", "T", "Q">> >>]
      [] k = 1 -> [firstName |-> <<"j", "a", "n", "e">>,
                   lastName |-> <<"S", "M", "I", "T", "H">>,
                   city |-> <<"A", "u", "s", "t", "i", "n">>,
                   degree |-> <<"P", "h", "D">>,
                   specialties |-> << >>]
      [] k = 2 -> [firstName |-> <<"A", "n", "n">>,
                   lastName |-> <<"O", "\\", "H", "a", "r", "a">>,
                   city |-> <<"R", "e", "n", "o">>,
                   degree |-> <<"M", "S", "W">>,
                   specialties |-> << <<"3", " ", "y", "r", "s", " ", "c", "o",
                                        "a", "c", "h", "i", "n", "g">> >>]
      [] OTHER -> [firstName |-> <<"A", "l">>,
                   lastName |-> <<"L", "i">>,
                   city |-> <<"R", "i", "o">>,
                   degree |-> <<"M", "D">>,
                   specialties |-> << <<"T", "r", "a", "u", "m", "a">> >>]

Advocate(i) ==
    LET p == Person(i % 4)
    IN  [id |-> i,
         firstName |-> p.firstName,
         lastName |-> p.lastName,
         city |-> p.city,
         degree |-> p.degree,
         specialties |-> p.specialties,
         yearsOfExperience |-> (i * 3) % 11,
         phoneNumber |-> 5550100 + i]

\* The table as seeded; the application never inserts, updates or deletes.
Table == [i \in 1..NumAdvocates |-> Advocate(i)]

(***************************************************************************)
(* The search terms of the model.                                          *)
(***************************************************************************)
SearchTerms ==
    { <<>>,
      <<"j", "o", "h", "n">>,
      <<"J", "O", "H", "N">>,
      <<"J", "o">>,
      <<"z", "z", "z">>,
      <<"m", "d">>,
      <<"5", "5", "5">>,
      <<"3", " ", "y", "r", "s">>,
      <<"3", " ", "Y", "R", "S">>,
      <<"3", " ", "y", "r", "s", " ">>,
      <<"0", "y", "r">>,
      <<"1", "0", " ", "y", "e", "a", "r", "s">>,
      <<"5", " ", "y", "e", "a", "r">>,
      <<"2", " ", "Y", "e", "a", "r", "s", " ", "O", "f", " ", "E", "x", "p",
        "e", "r", "i", "e", "n", "c", "e">>,
      <<"\\">>,
      <<"o", "\\", "h">>,
      <<"j", "_", "h", "n">>,
      <<"%">>,
      <<"3", " ", "o", "r", " ", "m", "o", "r", "e", " ", "y", "e", "a", "r",
        "s", " ", "o", "f", " ", "e", "x", "p", "e", "r", "i", "e", "n", "c",
        "e">> }

(***************************************************************************)
(* SQL text operators.                                                     *)
(***************************************************************************)
\* text LIKE pattern: % is any run of characters, _ is any one character and
\* a backslash makes the character after it literal.
RECURSIVE LikeMatch(_, _)
LikeMatch(t, p) ==
    IF p = <<>> THEN t = <<>>
    ELSE IF p[1] = "%"
        THEN LikeMatch(t, Tail(p)) \/ (t # <<>> /\ LikeMatch(Tail(t), p))
    ELSE IF p[1] = "_"
        THEN t # <<>> /\ LikeMatch(Tail(t), Tail(p))
    ELSE IF p[1] = "\\"
        THEN Len(p) >= 2 /\ t # <<>> /\ t[1] = p[2] /\ LikeMatch(Tail(t), Drop(p, 2))
    ELSE t # <<>> /\ t[1] = p[1] /\ LikeMatch(Tail(t), Tail(p))

\* The pattern `%${search}%` of every text condition.
Pattern(search) == <<"%">> \o search \o <<"%">>

\* ilike(column, `%${search}%`): LIKE on the lower-cased text and pattern.
ilike(column, search) ==
    LikeMatch(toLowerCase(column), toLowerCase(Pattern(search)))

\* A string inside jsonb::text: quoted, with quotes and backslashes escaped.
RECURSIVE JsonEscape(_)
JsonEscape(s) ==
    IF s = <<>> THEN <<>>
    ELSE (IF s[1] \in {"\"", "\\"} THEN <<"\\", s[1]>> ELSE <<s[1]>>)
         \o JsonEscape(Tail(s))

RECURSIVE JsonItems(_)
JsonItems(list) ==
    IF list = <<>> THEN <<>>
    ELSE <<"\"">> \o JsonEscape(list[1]) \o <<"\"">>
         \o (IF Len(list) > 1 THEN <<",", " ">> ELSE <<>>)
         \o JsonItems(Tail(list))

\* specialties::text, e.g. ["Bipolar", "LGBTQ"]
JsonbText(list) == <<"[">> \o JsonItems(list) \o <<"]">>

(***************************************************************************)
(* GET /api/advocates                                                      *)
(***************************************************************************)
UnitWords == { <<"y", "e", "a", "r">>, <<"y", "r">>, <<"y", "r", "s">>,
               <<"y", "e", "a", "r", "s">> }

\* (\s+of\s+experience)?$ on what follows the unit word
ExperienceTail(t) ==
    \/ t = <<>>
    \/ LET n1 == LeadingSpaces(t)
           t1 == Drop(t, n1)
           t2 == Drop(t1, 2)
           n2 == LeadingSpaces(t2)
       IN  /\ n1 >= 1
           /\ StartsWith(t1, <<"o", "f">>)
           /\ n2 >= 1
           /\ Drop(t2, n2) = <<"e", "x", "p", "e", "r", "i", "e", "n", "c", "e">>

\* search.match(/^(\d+)\s*(year|yr|yrs|years)(\s+of\s+experience)?$/i):
\* whether it matched, and capture group 1.
yearsMatch(search) ==
    LET k == LeadingDigits(search)
        afterDigits == Drop(search, k)
        rest == toLowerCase(Drop(afterDigits, LeadingSpaces(afterDigits)))
    IN  [matched |-> /\ k >= 1
                     /\ \E u \in UnitWords :
                            /\ StartsWith(rest, u)
                            /\ ExperienceTail(Drop(rest, Len(u))),
         group1 |-> SubSeq(search, 1, k)]

\* The `or(...)` of the seven text conditions.
TextConditions(search, a) ==
    \/ ilike(a.firstName, search)
    \/ ilike(a.lastName, search)
    \/ ilike(a.city, search)
    \/ ilike(a.degree, search)
    \/ ilike(ToText(a.phoneNumber), search)
    \/ ilike(ToText(a.yearsOfExperience), search)
    \/ ilike(JsonbText(a.specialties), search)

\* Mutant of YearsCondition: more than N years in place of at least N.
YearsCondition_Strict(search, a) ==
    a.yearsOfExperience > parseInt(yearsMatch(search).group1).val

\* yearsOfExperience >= parseInt(yearsMatch[1], 10)
YearsCondition(search, a) ==
    a.yearsOfExperience >= parseInt(yearsMatch(search).group1).val

\* searchConditions as a predicate on a row; an empty search has no WHERE.
searchConditions(search, a) ==
    IF search = <<>> THEN TRUE
    ELSE IF yearsMatch(search).matched THEN YearsCondition(search, a)
    ELSE TextConditions(search, a)

\* The ids of the rows of the table from row i on that the WHERE clause
\* keeps, in id order.
RECURSIVE Filtered(_, _)
Filtered(search, i) ==
    IF i > Len(Table) THEN <<>>
    ELSE (IF searchConditions(search, Table[i]) THEN <<i>> ELSE <<>>)
         \o Filtered(search, i + 1)

\* The kept rows of every search term of the model, computed once.
WhereRows == [t \in SearchTerms |-> Filtered(t, 1)]

Reverse(s) == [i \in 1..Len(s) |-> s[Len(s) + 1 - i]]

\* Mutant of CountQuery: the count query without its WHERE clause.
CountQuery_NoWhere(search) == Len(Table)

\* select count(*) from advocates [where ...]
CountQuery(search) == Len(WhereRows[search])

\* The query has no ORDER BY: the database returns the kept rows in the order
\* of the scan it chose.
ScanOrders == {"forward", "backward"}

\* Mutant of Scanned: the page query without its WHERE clause.
Scanned_NoWhere(search, scan) ==
    IF scan = "forward" THEN [i \in 1..Len(Table) |-> i]
    ELSE Reverse([i \in 1..Len(Table) |-> i])

Scanned(search, scan) ==
    IF scan = "forward" THEN WhereRows[search] ELSE Reverse(WhereRows[search])

\* LIMIT and OFFSET must be non-negative integers; the database rejects the
\* query otherwise.
PageQueryValid(limit, offset) ==
    IsNum(limit) /\ IsNum(offset) /\ limit.val >= 0 /\ offset.val >= 0

\* Mutant of PageQuery: the page query without its LIMIT clause.
PageQuery_NoLimit(search, limit, offset, scan) ==
    Drop(Scanned(search, scan), offset.val)

\* select * from advocates [where ...] limit ... offset ...
PageQuery(search, limit, offset, scan) ==
    LET rows == Scanned(search, scan)
        last == IF offset.val + limit.val < Len(rows)
                THEN offset.val + limit.val ELSE Len(rows)
    IN  SubSeq(rows, offset.val + 1, last)

\* A query parameter: absent, or its text.
NoParam == [present |-> FALSE, text |-> <<>>]
Param(text) == [present |-> TRUE, text |-> text]

\* searchParams.get(name) || fallback
GetOr(param, fallback) ==
    IF param.present /\ param.text # <<>> THEN param.text ELSE fallback

Threw == [threw |-> TRUE]
Returned(v) == [threw |-> FALSE, value |-> v]

\* Number(countResult[0].count)
Total(search) == Num(CountQuery(search))

\* The try block: the two queries and the response object.
TryBlock(search, page, limit, offset, d) ==
    IF d.fail = "count" THEN Threw
    ELSE IF d.fail = "page" \/ ~PageQueryValid(limit, offset) THEN Threw
    ELSE Returned([data |-> PageQuery(search, limit, offset, d.scan),
                   total |-> Total(search),
                   page |-> page,
                   limit |-> limit,
                   totalPages |-> CeilDiv(Total(search).val, limit)])

\* Response.json(response): NaN and Infinity become null.
JsonBody(r) ==
    [data |-> r.data, total |-> ToJson(r.total), page |-> ToJson(r.page),
     limit |-> ToJson(r.limit), totalPages |-> ToJson(r.totalPages)]

ErrorBody == [error |-> "Failed to fetch advocates"]

\* The catch block.
CatchBlock == [status |-> 500, body |-> ErrorBody]

\* Mutant of GET: no catch block, so that the framework answers a thrown
\* error with its own 500.
GET_NoCatch(req, d) ==
    LET search == GetOr(req.search, <<>>)
        limit == parseInt(GetOr(req.limit, <<"2", "0">>))
        page == parseInt(GetOr(req.page, <<"1">>))
        offset == Offset(page, limit)
        tried == TryBlock(search, page, limit, offset, d)
    IN  IF tried.threw
        THEN [status |-> 500, body |-> [unhandled |-> TRUE]]
        ELSE [status |-> 200, body |-> JsonBody(tried.value)]

GET(req, d) ==
    LET search == GetOr(req.search, <<>>)
        limit == parseInt(GetOr(req.limit, <<"2", "0">>))
        page == parseInt(GetOr(req.page, <<"1">>))
        offset == Offset(page, limit)
        tried == TryBlock(search, page, limit, offset, d)
    IN  IF tried.threw
        THEN CatchBlock
        ELSE [status |-> 200, body |-> JsonBody(tried.value)]

(***************************************************************************)
(* Requests of any HTTP client.                                            *)
(***************************************************************************)
PageTexts == { <<"1">>, <<"2">>, <<"3">>, <<"0">>, <<"-", "1">>, <<"a", "b", "c">> }
LimitTexts == { <<"1">>, <<"2">>, <<"3">>, <<"2", "0">>, <<"0">>, <<"-", "1">>,
                <<"2", "x">> }

Requests ==
    [search : {NoParam} \cup {Param(t) : t \in SearchTerms},
     page : {NoParam} \cup {Param(t) : t \in PageTexts},
     limit : {NoParam} \cup {Param(t) : t \in LimitTexts}]

\* The count query fails, or the page query fails, or neither.
DbRuns ==
    {d \in [fail : {"none", "count", "page"}, scan : ScanOrders] :
        d.fail = "none" \/ d.scan = "forward"}

NoRequest == [search |-> NoParam, page |-> NoParam, limit |-> NoParam]
NoResponse == [status |-> 0, body |-> [none |-> TRUE]]

\* The route is stateless: one request, drawn with the database's behaviour
\* while it is served, and then the answer.
ApiInit ==
    /\ request \in Requests
    /\ db \in DbRuns
    /\ response = NoResponse

\* The route answers the request.
Get ==
    /\ response = NoResponse
    /\ response' = GET(request, db)
    /\ UNCHANGED <<request, db>>

(***************************************************************************)
(* The Home page.  A step is a task of the browser's event loop: an event  *)
(* handler, a timer callback, the arrival of a response.  After a state    *)
(* change React re-renders and runs the effects whose dependencies         *)
(* changed, and the continuation of a rejected fetch is a microtask: both  *)
(* happen before the next task.                                            *)
(***************************************************************************)
\* What the user may type or paste into the search box.
TypedTerms == { <<>>, <<"J", "o">>, <<"z", "z", "z">> }

NullError == [null |-> TRUE, message |-> ""]
Err(m) == [null |-> FALSE, message |-> m]

NoTimer == [pending |-> FALSE, value |-> <<>>]

NotMounted ==
    [mounted |-> FALSE, value |-> <<>>, debouncedSearch |-> <<>>, currentPage |-> 1]

HomeInit ==
    /\ advocates = <<>>
    /\ searchTerm = <<>>
    /\ currentPage = 1
    /\ totalPages = Num(1)
    /\ total = Num(0)
    /\ loading = FALSE
    /\ error = NullError
    /\ debouncedValue = <<>>
    /\ timer = NoTimer
    /\ effectDeps = NotMounted
    /\ requests = <<>>

Init ==
    /\ request = NoRequest
    /\ db = [fail |-> "none", scan |-> "forward"]
    /\ response = NoResponse
    /\ HomeInit
    /\ filteredAdvocates = <<>>

\* The request most recently issued.
Latest == requests[Len(requests)]

InFlight(r) == r.state = "pending"

\* A fetch that was aborted and whose rejection has not been handled yet.
AbortedPending == {i \in 1..Len(requests) : requests[i].aborted /\ InFlight(requests[i])}

\* The dependencies of the three effects as of this render.
DebounceDepsChanged == ~effectDeps.mounted \/ effectDeps.value # searchTerm
\* Mutant of FetchDepsChanged: a fetch effect that also runs again after a
\* failure.
FetchDepsChanged_Retry ==
    \/ ~effectDeps.mounted
    \/ effectDeps.debouncedSearch # debouncedValue
    \/ effectDeps.currentPage # currentPage
    \/ (requests # <<>> /\ requests[Len(requests)].outcome \in {"http", "network"})

FetchDepsChanged ==
    \/ ~effectDeps.mounted
    \/ effectDeps.debouncedSearch # debouncedValue
    \/ effectDeps.currentPage # currentPage
ResetDepsChanged == ~effectDeps.mounted \/ effectDeps.debouncedSearch # debouncedValue

EffectsPending == DebounceDepsChanged \/ FetchDepsChanged \/ ResetDepsChanged

\* Nothing is left of the current task: the next task may start.
Idle == ~EffectsPending /\ AbortedPending = {}

\* Room for the requests one more state change can cause.
RequestsLeft == Len(requests) + 2 <= MaxRequests

\* Mutant of FetchCleanup: an effect that returns no cleanup.
FetchCleanup_NoAbort(reqs) == reqs

\* return () => controller.abort(): the controller is that of the last run.
FetchCleanup(reqs) ==
    IF reqs = <<>> THEN reqs
    ELSE [reqs EXCEPT ![Len(reqs)].aborted = TRUE]

\* new AbortController() and fetch(`/api/advocates?${params}`, {signal})
NewRequest(search, page) ==
    [search |-> search, page |-> page, aborted |-> FALSE,
     state |-> "pending", outcome |-> "none"]

\* The URLSearchParams of a request.
HttpRequest(r) ==
    [search |-> IF r.search = <<>> THEN NoParam ELSE Param(r.search),
     page |-> Param(ToText(r.page)),
     limit |-> Param(<<"2", "0">>)]

\* Mutant of DebounceEffect: an effect that returns no cleanup, so that a
\* timer set for an earlier value still fires.
DebounceEffect_NoClear(tm, value) ==
    IF tm.pending THEN tm ELSE [pending |-> TRUE, value |-> value]

\* Mutant of DebounceEffect: an effect that sets no timeout.
DebounceEffect_NoTimeout(tm, value) == tm

\* useDebounce's effect: clearTimeout(handler) of the last run, then
\* setTimeout(() => setDebouncedValue(value), delay).
DebounceEffect(tm, value) == [pending |-> TRUE, value |-> value]

\* Mutant of PageResetEffect: no page reset.
PageResetEffect_Keep(prev) == prev

\* The page-reset effect: setCurrentPage(1)
PageResetEffect(prev) == 1

\* React runs the effects of the committed render: the cleanups of those
\* whose dependencies changed, then their bodies (useDebounce's timer, the
\* fetch effect up to its first await, the page reset).
RunEffects ==
    /\ EffectsPending
    /\ timer' = IF DebounceDepsChanged
                THEN DebounceEffect(timer, searchTerm)
                ELSE timer
    /\ IF FetchDepsChanged
       THEN /\ requests' = Append(FetchCleanup(requests),
                                  NewRequest(debouncedValue, currentPage))
            /\ loading' = TRUE
            /\ error' = NullError
       ELSE UNCHANGED <<requests, loading, error>>
    /\ currentPage' = IF ResetDepsChanged
                      THEN PageResetEffect(currentPage)
                      ELSE currentPage
    /\ effectDeps' = [mounted |-> TRUE, value |-> searchTerm,
                      debouncedSearch |-> debouncedValue,
                      currentPage |-> currentPage]
    /\ UNCHANGED <<filteredAdvocates, request, db, response, advocates, searchTerm,
                   totalPages, total, debouncedValue>>

\* Mutant of CatchError: a catch block that only logs.
CatchError_LogOnly(err, current) == current

\* Mutant of CatchError: a catch block without the AbortError test.
CatchError_NoAbortTest(err, current) == Err(err.message)

\* catch (err): an AbortError is ignored, anything else becomes the error.
CatchError(err, current) ==
    IF err.name = "AbortError" THEN current ELSE Err(err.message)

Settle(reqs, i, outcome) ==
    [reqs EXCEPT ![i].state = "settled", ![i].outcome = outcome]

\* The rejection of an aborted fetch reaches fetchAdvocates: catch, finally.
SettleAborted(i) ==
    /\ i \in AbortedPending
    /\ requests' = Settle(requests, i, "abort")
    /\ error' = CatchError([name |-> "AbortError",
                            message |-> "The user aborted a request."], error)
    /\ loading' = FALSE
    /\ UNCHANGED <<filteredAdvocates, request, db, response, advocates, searchTerm,
                   currentPage, totalPages, total, debouncedValue, timer,
                   effectDeps>>

\* The reason phrase the browser reports for a 500: HTTP/1.1 carries one,
\* HTTP/2 carries none.
StatusTexts == {"Internal Server Error", ""}

\* Mutant of Respond: a failure also empties the list.
Respond_FailureClearsList(d, statusText) ==
    /\ Idle
    /\ requests # <<>>
    /\ InFlight(Latest)
    /\ LET res == GET(HttpRequest(Latest), d)
       IN  /\ request' = HttpRequest(Latest)
           /\ db' = d
           /\ response' = res
           /\ IF res.status = 200
              THEN /\ advocates' = res.body.data
                   /\ totalPages' = res.body.totalPages
                   /\ total' = res.body.total
                   /\ error' = error
                   /\ requests' = Settle(requests, Len(requests), "ok")
              ELSE /\ error' = CatchError(
                                 [name |-> "Error",
                                  message |-> "Failed to fetch advocates: "
                                              \o statusText], error)
                   /\ requests' = Settle(requests, Len(requests), "http")
                   /\ advocates' = <<>>
                   /\ UNCHANGED <<totalPages, total>>
    /\ loading' = FALSE
    /\ UNCHANGED <<filteredAdvocates, searchTerm, currentPage, debouncedValue, timer,
                   effectDeps>>

\* The response to the request in flight arrives.
Respond(d, statusText) ==
    /\ Idle
    /\ requests # <<>>
    /\ InFlight(Latest)
    /\ LET res == GET(HttpRequest(Latest), d)
       IN  /\ request' = HttpRequest(Latest)
           /\ db' = d
           /\ response' = res
           /\ IF res.status = 200
              THEN /\ advocates' = res.body.data
                   /\ totalPages' = res.body.totalPages
                   /\ total' = res.body.total
                   /\ error' = error
                   /\ requests' = Settle(requests, Len(requests), "ok")
              ELSE /\ error' = CatchError(
                                 [name |-> "Error",
                                  message |-> "Failed to fetch advocates: "
                                              \o statusText], error)
                   /\ requests' = Settle(requests, Len(requests), "http")
                   /\ UNCHANGED <<advocates, totalPages, total>>
    /\ loading' = FALSE
    /\ UNCHANGED <<filteredAdvocates, searchTerm, currentPage, debouncedValue, timer,
                   effectDeps>>

\* The request in flight fails in the network: fetch rejects with a TypeError.
NetworkError ==
    /\ Idle
    /\ requests # <<>>
    /\ InFlight(Latest)
    /\ requests' = Settle(requests, Len(requests), "network")
    /\ error' = CatchError([name |-> "TypeError", message |-> "Failed to fetch"],
                           error)
    /\ loading' = FALSE
    /\ UNCHANGED <<filteredAdvocates, request, db, response, advocates, searchTerm,
                   currentPage, totalPages, total, debouncedValue, timer,
                   effectDeps>>

\* Mutant of getSearchDisplayText: the term is always displayed as typed.
getSearchDisplayText_AsTyped(term) == term

\* " or more years of experience"
OrMoreYears ==
    <<" ", "o", "r", " ", "m", "o", "r", "e", " ", "y", "e", "a", "r", "s",
      " ", "o", "f", " ", "e", "x", "p", "e", "r", "i", "e", "n", "c", "e">>

\* The text after "Searching for:".
getSearchDisplayText(term) ==
    IF yearsMatch(term).matched
    THEN yearsMatch(term).group1 \o OrMoreYears
    ELSE term

\* The input's onChange; the input is disabled while loading.
onSearchChange(value) ==
    /\ Idle
    /\ ~loading
    /\ value # searchTerm
    /\ searchTerm' = value
    /\ UNCHANGED <<filteredAdvocates, request, db, response, advocates, currentPage,
                   totalPages, total, loading, error, debouncedValue, timer,
                   effectDeps, requests>>

\* The Reset button; disabled while loading.
onReset ==
    /\ Idle
    /\ ~loading
    /\ RequestsLeft
    /\ searchTerm' = <<>>
    /\ currentPage' = 1
    /\ UNCHANGED <<filteredAdvocates, request, db, response, advocates, totalPages, total,
                   loading, error, debouncedValue, timer, effectDeps, requests>>

\* Math.max(1, prev - 1)
PreviousPage(prev) == IF prev - 1 > 1 THEN prev - 1 ELSE 1

\* Math.min(totalPages, prev + 1); null counts as 0.
NextPage(pages, prev) ==
    LET t == IF IsNum(pages) THEN pages.val ELSE 0
    IN  IF t < prev + 1 THEN t ELSE prev + 1

\* The Previous button; disabled={currentPage === 1 || loading}
onPreviousPage ==
    /\ Idle
    /\ ~(currentPage = 1 \/ loading)
    /\ RequestsLeft
    /\ currentPage' = PreviousPage(currentPage)
    /\ UNCHANGED <<filteredAdvocates, request, db, response, advocates, searchTerm,
                   totalPages, total, loading, error, debouncedValue, timer,
                   effectDeps, requests>>

\* The Next button; disabled={currentPage === totalPages || loading}
onNextPage ==
    /\ Idle
    /\ ~((IsNum(totalPages) /\ totalPages.val = currentPage) \/ loading)
    /\ RequestsLeft
    /\ currentPage' = NextPage(totalPages, currentPage)
    /\ UNCHANGED <<filteredAdvocates, request, db, response, advocates, searchTerm,
                   totalPages, total, loading, error, debouncedValue, timer,
                   effectDeps, requests>>

\* useDebounce's timeout fires: setDebouncedValue(value)
TimerFires ==
    /\ Idle
    /\ timer.pending
    /\ RequestsLeft
    /\ debouncedValue' = timer.value
    /\ timer' = NoTimer
    /\ UNCHANGED <<filteredAdvocates, request, db, response, advocates, searchTerm,
                   currentPage, totalPages, total, loading, error, effectDeps,
                   requests>>

Next ==
    \/ RunEffects
    \/ \E i \in 1..Len(requests) : SettleAborted(i)
    \/ \E d \in DbRuns, st \in StatusTexts : Respond(d, st)
    \/ NetworkError
    \/ \E v \in TypedTerms : onSearchChange(v)
    \/ onReset
    \/ onPreviousPage
    \/ onNextPage
    \/ TimerFires

Spec == Init /\ [][Next]_vars

\* What the browser and React schedule, they run: the effects of a committed
\* render, the continuation of a rejected fetch, a timeout that was set and
\* not cleared.  Nothing obliges the user to act or the network to answer.
Fairness ==
    /\ WF_vars(RunEffects)
    /\ WF_vars(\E i \in 1..Len(requests) : SettleAborted(i))
    /\ WF_vars(TimerFires)

LiveSpec == Spec /\ Fairness

(***************************************************************************)
(* The route on its own, called with any query parameters.                 *)
(***************************************************************************)
ApiStart ==
    /\ ApiInit
    /\ HomeInit
    /\ filteredAdvocates = <<>>

ApiNext == Get /\ UNCHANGED <<homeVars, filteredAdvocates>>

ApiSpec == ApiStart /\ [][ApiNext]_vars

(***************************************************************************)
(* The Home page with client-side filtering: one fetch of /api/advocates   *)
(* when it mounts, and a filter of the fetched list at every keystroke.    *)
(* It has no debounce, no pagination and no loading state.                 *)
(***************************************************************************)
\* text.includes(s)
includes(text, s) ==
    \E k \in 0..(Len(text) - Len(s)) : SubSeq(text, k + 1, k + Len(s)) = s

\* The callback of advocates.filter in onChange.
FilterMatches(a, search) ==
    LET searchLower == toLowerCase(search)
    IN  \/ includes(toLowerCase(a.firstName), searchLower)
        \/ includes(toLowerCase(a.lastName), searchLower)
        \/ includes(toLowerCase(a.city), searchLower)
        \/ includes(toLowerCase(a.degree), searchLower)
        \/ \E k \in 1..Len(a.specialties) :
              includes(toLowerCase(a.specialties[k]), searchLower)
        \/ includes(ToText(a.yearsOfExperience), search)
        \/ includes(ToText(a.phoneNumber), search)

\* The rows the callback keeps, for every term of the model.
FilterKeeps ==
    [t \in SearchTerms |-> {i \in 1..Len(Table) : FilterMatches(Table[i], t)}]

\* advocates.filter(...)
filter(list, search) ==
    LET Keeps(i) == i \in FilterKeeps[search]
    IN  SelectSeq(list, Keeps)

\* The variables of the paginated page, which this page does not have.
pagedVars ==
    <<currentPage, totalPages, total, loading, debouncedValue, timer, effectDeps>>

FilterInit ==
    /\ request = NoRequest
    /\ db = [fail |-> "none", scan |-> "forward"]
    /\ response = NoResponse
    /\ HomeInit
    /\ filteredAdvocates = <<>>

\* The mount effect: fetch("/api/advocates")
FilterMount ==
    /\ requests = <<>>
    /\ requests' = <<NewRequest(<<>>, 1)>>
    /\ UNCHANGED <<request, db, response, advocates, filteredAdvocates,
                   searchTerm, error, pagedVars>>

\* The response to the fetch arrives.
FilterRespond(d, statusText) ==
    /\ requests # <<>>
    /\ InFlight(Latest)
    /\ LET res == GET(NoRequest, d)
       IN  /\ request' = NoRequest
           /\ db' = d
           /\ response' = res
           /\ IF res.status = 200
              THEN /\ advocates' = res.body.data
                   /\ filteredAdvocates' = res.body.data
                   /\ error' = error
                   /\ requests' = Settle(requests, Len(requests), "ok")
              ELSE /\ error' = Err("Failed to fetch advocates: " \o statusText)
                   /\ requests' = Settle(requests, Len(requests), "http")
                   /\ UNCHANGED <<advocates, filteredAdvocates>>
    /\ UNCHANGED <<searchTerm, pagedVars>>

\* The fetch fails in the network.
FilterNetworkError ==
    /\ requests # <<>>
    /\ InFlight(Latest)
    /\ requests' = Settle(requests, Len(requests), "network")
    /\ error' = Err("Failed to fetch")
    /\ UNCHANGED <<request, db, response, advocates, filteredAdvocates,
                   searchTerm, pagedVars>>

\* The input's onChange.
onChange(search) ==
    /\ requests # <<>>
    /\ search # searchTerm
    /\ searchTerm' = search
    /\ filteredAdvocates' = filter(advocates, search)
    /\ UNCHANGED <<request, db, response, advocates, error, requests, pagedVars>>

\* The Reset Search button.
onClick ==
    /\ requests # <<>>
    /\ searchTerm' = <<>>
    /\ filteredAdvocates' = advocates
    /\ UNCHANGED <<request, db, response, advocates, error, requests, pagedVars>>

FilterNext ==
    \/ FilterMount
    \/ \E d \in DbRuns, st \in StatusTexts : FilterRespond(d, st)
    \/ FilterNetworkError
    \/ \E v \in SearchTerms : onChange(v)
    \/ onClick

FilterSpec == FilterInit /\ [][FilterNext]_vars

(***************************************************************************)
(* Properties of the route (checked under ApiSpec).                        *)
(***************************************************************************)
Ok == response.status = 200

\* The search term of the request, empty when the parameter is absent.
Term == IF request.search.present THEN request.search.text ELSE <<>>

\* The advocates that satisfy the filter the route applies to a term, for
\* every term of the model.
Matching ==
    [t \in SearchTerms |-> {i \in 1..Len(Table) : searchConditions(t, Table[i])}]

MatchingSet(t) == Matching[t]

Rows(seq) == {seq[i] : i \in 1..Len(seq)}

\* The integers a page or limit parameter of the model may spell.
ParamInts == -1..20

\* C1: the total of a successful response is the number of advocates that
\* satisfy the applied filter (all of them when the search term is empty),
\* whatever the page and the limit.
C1_TotalIsFilteredCount ==
    Ok => /\ response.body.total = Num(Cardinality(MatchingSet(Term)))
          /\ Term = <<>> => response.body.total = Num(Len(Table))

C1_Witness ==
    /\ Ok
    /\ Term = <<"J", "o">>
    /\ request.page = Param(<<"2">>)
    /\ request.limit = Param(<<"2">>)
    /\ response.body.total = Num(5)

\* C2: a successful response to a request with limit N carries at most N rows.
C2_AtMostLimitRows ==
    Ok => \A n \in ParamInts :
            request.limit = Param(ToText(n)) => Len(response.body.data) <= n

C2_Witness ==
    /\ Ok
    /\ request.limit = Param(<<"2">>)
    /\ Len(response.body.data) = 2
    /\ response.body.total.val > 2

\* C3 as stated: when the term matches no advocate the route returns an empty
\* data list and total 0, for every page and limit.
C3_Original ==
    (response # NoResponse /\ MatchingSet(Term) = {})
        => Ok /\ response.body.data = <<>> /\ response.body.total = Num(0)

\* C3 as amended: when the term matches no advocate, every successful
\* response carries an empty data list and total 0, for every page and limit.
C3_NoMatchEmptyPage ==
    (Ok /\ MatchingSet(Term) = {})
        => response.body.data = <<>> /\ response.body.total = Num(0)

C3_Witness ==
    /\ Ok
    /\ Term = <<"z", "z", "z">>
    /\ request.page = Param(<<"3">>)
    /\ request.limit = Param(<<"1">>)
    /\ response.body.data = <<>>

\* Terms of the form "<N> years", each with its N.
YearsExamples ==
    { [term |-> <<"3", " ", "y", "r", "s">>, n |-> 3],
      [term |-> <<"3", " ", "Y", "R", "S">>, n |-> 3],
      [term |-> <<"0", "y", "r">>, n |-> 0],
      [term |-> <<"1", "0", " ", "y", "e", "a", "r", "s">>, n |-> 10],
      [term |-> <<"5", " ", "y", "e", "a", "r">>, n |-> 5],
      [term |-> <<"2", " ", "Y", "e", "a", "r", "s", " ", "O", "f", " ", "E",
                  "x", "p", "e", "r", "i", "e", "n", "c", "e">>, n |-> 2] }

AtLeastYears(n) == {i \in 1..Len(Table) : Table[i].yearsOfExperience >= n}

\* C4: for a term of the form "<N> years" the matching set is exactly the
\* advocates with at least N years of experience, whatever their text fields
\* hold, and a successful response counts and returns those.
C4_YearsTermIsMinimum ==
    \A e \in YearsExamples :
        /\ MatchingSet(e.term) = AtLeastYears(e.n)
        /\ (Ok /\ Term = e.term) =>
              /\ response.body.total = Num(Cardinality(AtLeastYears(e.n)))
              /\ Rows(response.body.data) \subseteq AtLeastYears(e.n)

C4_Witness ==
    /\ Ok
    /\ Term = <<"3", " ", "Y", "R", "S">>
    /\ response.body.data # <<>>
    /\ \E i \in 1..Len(Table) :
          /\ Table[i].yearsOfExperience < 3
          /\ TextConditions(Term, Table[i])
          /\ i \notin Rows(response.body.data)

\* text contains term, ignoring letter case.
ContainsIgnoreCase(text, term) ==
    \E k \in 0..(Len(text) - Len(term)) :
        toLowerCase(SubSeq(text, k + 1, k + Len(term))) = toLowerCase(term)

NameCityDegreeContains(a, term) ==
    \/ ContainsIgnoreCase(a.firstName, term)
    \/ ContainsIgnoreCase(a.lastName, term)
    \/ ContainsIgnoreCase(a.city, term)
    \/ ContainsIgnoreCase(a.degree, term)

IsYearsTerm(t) == \E e \in YearsExamples : e.term = t

\* The advocates whose first name, last name, city or degree contains the term.
Containing ==
    [t \in SearchTerms |->
        {i \in 1..Len(Table) : NameCityDegreeContains(Table[i], t)}]

\* C5: text matching ignores letter case: terms that differ only in case
\* select the same advocates, and an advocate whose first name, last name,
\* city or degree contains the term in any case is selected.
C5_CaseInsensitiveContainment ==
    /\ \A t1, t2 \in SearchTerms :
          toLowerCase(t1) = toLowerCase(t2) => MatchingSet(t1) = MatchingSet(t2)
    /\ (Ok /\ Term # <<>> /\ ~IsYearsTerm(Term)) =>
          /\ Containing[Term] \subseteq MatchingSet(Term)
          /\ response.body.total.val >= Cardinality(Containing[Term])

\* C6: page and limit of a successful response are the requested ones, and
\* for limit >= 1 totalPages is the ceiling of total / limit.
C6_PaginationMetadata ==
    Ok => /\ \A n \in ParamInts :
                /\ request.page = Param(ToText(n)) => response.body.page = Num(n)
                /\ request.limit = Param(ToText(n)) => response.body.limit = Num(n)
          /\ (IsNum(response.body.limit) /\ response.body.limit.val >= 1) =>
                LET l == response.body.limit.val
                    t == response.body.total.val
                    tp == response.body.totalPages
                IN  /\ IsNum(tp)
                    /\ (tp.val - 1) * l < t
                    /\ t <= tp.val * l
                    /\ t = 0 => tp.val = 0

C6_Witness ==
    /\ Ok
    /\ request.page = Param(<<"3">>)
    /\ request.limit = Param(<<"2">>)
    /\ response.body.total = Num(5)
    /\ response.body.totalPages = Num(3)
    /\ Len(response.body.data) = 1

\* C7: when the count query or the page query fails the answer is status 500
\* with the body {error: "Failed to fetch advocates"} and nothing else; the
\* route always answers with its own 200 or 500.
C7_QueryFailureIs500 ==
    response # NoResponse =>
        /\ db.fail # "none" =>
              /\ response.status = 500
              /\ response.body = [error |-> "Failed to fetch advocates"]
        /\ response.status \in {200, 500}
        /\ response.status = 500 => DOMAIN response.body = {"error"}

C7_Witness ==
    /\ response.status = 500
    /\ db.fail = "page"
    /\ request.page = Param(<<"1">>)
    /\ request.limit = Param(<<"2">>)

(***************************************************************************)
(* Properties of the Home page (checked under Spec).                       *)
(***************************************************************************)
Issued == requests # <<>>

NoPending == \A i \in 1..Len(requests) : ~InFlight(requests[i])

\* C8 as stated: when the route answers the page's request with its error
\* response, error is set and its message is the message of the response.
C8_Original ==
    (Issued /\ Latest.outcome = "http")
        => /\ response.status = 500
           /\ ~error.null
           /\ error.message = response.body.error

\* C8 as amended: when the page receives the route's error response to its
\* request in flight, error is set, and its message is not the one in the
\* response body, which the page never reads, but the page's own text
\* "Failed to fetch advocates: " followed by the status text of the response.
C8_ErrorFromStatusText ==
    (Issued /\ Latest.outcome = "http")
        => /\ response.status = 500
           /\ ~error.null
           /\ \E st \in StatusTexts :
                 error.message = "Failed to fetch advocates: " \o st
           /\ error.message # response.body.error

C8_Witness ==
    /\ Issued
    /\ Latest.outcome = "http"
    /\ ~loading
    /\ error = Err("Failed to fetch advocates: Internal Server Error")

\* C9: at most one request whose signal is not aborted is in flight, and
\* every request issued before the latest one has been aborted.
C9_OneLiveRequest ==
    /\ Cardinality({i \in 1..Len(requests) :
                       InFlight(requests[i]) /\ ~requests[i].aborted}) <= 1
    /\ \A i \in 1..(Len(requests) - 1) : requests[i].aborted

C9_Witness ==
    /\ Len(requests) >= 3
    /\ InFlight(Latest)
    /\ ~Latest.aborted
    /\ \E i \in AbortedPending : requests[i].search # Latest.search

\* What the page displays of a response or a failure.
Display == <<advocates, total, totalPages, error>>

\* A step that handles the outcome of a request whose signal is aborted.
SupersededSettles ==
    \E i \in 1..Len(requests) :
        requests[i].aborted /\ InFlight(requests[i]) /\ ~InFlight(requests'[i])

\* The pages the route may return for the latest request.
LatestPages ==
    {GET(HttpRequest(Latest), d).body.data :
        d \in {x \in DbRuns : GET(HttpRequest(Latest), x).status = 200}}

\* C10 as stated: the outcome of a superseded request never changes
\* advocates, total, totalPages or error, and whenever no request is pending
\* the displayed list is the response to the most recently issued request.
C10_Original ==
    [][/\ SupersededSettles => UNCHANGED Display
       /\ (Issued /\ NoPending)' => (advocates \in LatestPages)']_vars

\* The display when the latest request is settled.
LatestApplied ==
    /\ Latest.outcome = "ok" =>
          /\ request = HttpRequest(Latest)
          /\ response.status = 200
          /\ advocates = response.body.data
          /\ total = response.body.total
          /\ totalPages = response.body.totalPages
          /\ error.null
    /\ Latest.outcome \in {"http", "network"} => ~error.null

\* C10 as amended: the outcome of a superseded request never changes
\* advocates, total, totalPages or error; whenever no request is pending and
\* the most recently issued request was answered successfully, the list, the
\* total and the page count displayed are those of its response; when it
\* failed, error is set (and the list is left as it was).
C10_NoStaleResponse ==
    [][/\ SupersededSettles => UNCHANGED Display
       /\ (Issued /\ NoPending)' => LatestApplied']_vars

C10_Witness ==
    /\ NoPending
    /\ Issued
    /\ Latest.outcome = "ok"
    /\ advocates = response.body.data
    /\ advocates # <<>>
    /\ \E i \in 1..(Len(requests) - 1) :
          requests[i].outcome = "abort" /\ requests[i].search # Latest.search

\* C11: the debounced value changes only when the timeout set for the
\* current input value fires, and then it becomes that value: a value that
\* was replaced before its timeout fired never becomes the debounced value
\* (every change of the input replaces the pending timeout), and when the
\* input stops changing the debounced value ends up equal to the last input.
C11_Debounce ==
    /\ [][debouncedValue' # debouncedValue =>
            /\ timer.pending
            /\ timer.value = searchTerm
            /\ debouncedValue' = searchTerm]_vars
    /\ [](Idle /\ timer.pending => timer.value = searchTerm)
    /\ \A v \in TypedTerms :
          <>[](searchTerm = v /\ RequestsLeft) => <>[](debouncedValue = v)

\* The input was changed twice within the delay and the timeout of the second
\* value has fired.
C11_Witness ==
    /\ searchTerm = <<"J", "o">>
    /\ debouncedValue = <<"J", "o">>
    /\ ~timer.pending
    /\ RequestsLeft
    /\ \A i \in 1..Len(requests) : requests[i].search # <<"z", "z", "z">>
    /\ Len(requests) = 2

\* The effects run after the debounced value has changed.
TermEffectsRun ==
    /\ effectDeps.mounted
    /\ effectDeps.debouncedSearch # debouncedValue
    /\ effectDeps' # effectDeps

\* C12: a burst of keystrokes, each within the delay of the one before,
\* causes exactly one request, and it carries the final term: the effects
\* that run after the timeout of the final term has fired issue one request
\* with that term and leave no other request to issue.
C12_OneRequestPerBurst ==
    [][TermEffectsRun =>
          /\ Len(requests') = Len(requests) + 1
          /\ Latest'.search = searchTerm
          /\ ~FetchDepsChanged']_vars

Failed(r) == r.outcome \in {"http", "network"}

\* C13: the page never retries.  A request is issued only when the debounced
\* term or the current page differs from those of the last run of the fetch
\* effect, so that it differs from the request before it in its term or its
\* page, and after a failure no request is in flight until such a change.
C13_NoRetry ==
    /\ [][(Issued /\ requests' # requests /\ Len(requests') > Len(requests)) =>
              /\ Len(requests') = Len(requests) + 1
              /\ \/ effectDeps.debouncedSearch # debouncedValue
                 \/ effectDeps.currentPage # currentPage
              /\ \/ Latest'.search # Latest.search
                 \/ Latest'.page # Latest.page]_vars
    /\ []((Issued /\ Failed(Latest)) => NoPending)

\* A request failed, and the next one was issued for another term.
C13_Witness ==
    /\ Len(requests) >= 2
    /\ Failed(requests[Len(requests) - 1])
    /\ InFlight(Latest)
    /\ Latest.search # requests[Len(requests) - 1].search

\* C14: the pagination buttons keep the page number valid: currentPage is at
\* least 1, and so is the page of every request the page issues.
C14_PageAtLeastOne ==
    /\ currentPage >= 1
    /\ \A i \in 1..Len(requests) : requests[i].page >= 1

\* The page count displayed, null counting as 0.
PagesShown == IF IsNum(totalPages) THEN totalPages.val ELSE 0

\* C15: Next is disabled on the last page: whenever a response has been
\* applied and no request is pending, currentPage <= max(1, totalPages).
C15_NotBeyondLastPage ==
    (NoPending /\ \E i \in 1..Len(requests) : requests[i].outcome = "ok")
        => currentPage <= (IF PagesShown > 1 THEN PagesShown ELSE 1)

\* C16: the controls are disabled during loading: while a request whose
\* signal is not aborted is in flight, loading is true.
C16_LoadingWhileInFlight ==
    \A i \in 1..Len(requests) :
        (InFlight(requests[i]) /\ ~requests[i].aborted) => loading

\* Nothing is scheduled: no effect, no request, no timeout.
Quiescent == Idle /\ NoPending /\ ~timer.pending

\* The term of the latest request is not the one the page was loaded with.
TermChanged == Len(requests) >= 2 /\ Latest.search # requests[1].search

\* The pages the route may return for a term and a page number.
PagesOf(term, page) ==
    LET req == HttpRequest(NewRequest(term, page))
    IN  {GET(req, d).body.data : d \in {x \in DbRuns : GET(req, x).status = 200}}

\* C17 as stated: when the debounced term changes currentPage becomes 1, and
\* once the page is quiescent the list displayed is page 1 of the new term.
C17_Original ==
    /\ [][TermEffectsRun => currentPage' = 1]_vars
    /\ []((Quiescent /\ TermChanged /\ currentPage = 1)
              => advocates \in PagesOf(debouncedValue, 1))

\* C17 as amended: when the debounced term changes currentPage becomes 1
\* whatever it was, the request in force is then the one for the new term and
\* the current page, and once the page is quiescent with that request
\* answered successfully the list displayed is page 1 of the new term.
C17_PageOneOfNewTerm ==
    /\ [][TermEffectsRun => currentPage' = 1]_vars
    /\ []((Idle /\ Issued)
              => Latest.search = debouncedValue /\ Latest.page = currentPage)
    /\ []((Quiescent /\ TermChanged /\ currentPage = 1 /\ Latest.outcome = "ok")
              => /\ request = HttpRequest(Latest)
                 /\ advocates = response.body.data
                 /\ advocates \in PagesOf(debouncedValue, 1))

\* The term changed on page 2, and page 1 of the new term is displayed.
C17_Witness ==
    /\ Quiescent
    /\ currentPage = 1
    /\ Latest.outcome = "ok"
    /\ Latest.search = <<"J", "o">>
    /\ advocates # <<>>
    /\ advocates \in PagesOf(debouncedValue, 1)
    /\ \E i \in 1..(Len(requests) - 1) :
          /\ requests[i].search = <<"J", "o">>
          /\ requests[i].page = 2
          /\ requests[i].outcome = "abort"

(***************************************************************************)
(* The display text of a term and the filter the route applies to it       *)
(* (checked under ApiSpec).                                                *)
(***************************************************************************)
\* Text of the form "<N> or more years of experience".
IsThresholdMessage(text) ==
    LeadingDigits(text) >= 1 /\ Drop(text, LeadingDigits(text)) = OrMoreYears

\* The N of a threshold message.
ThresholdOf(text) == parseInt(SubSeq(text, 1, LeadingDigits(text)))

\* The route takes the years branch of searchConditions for this term.
AppliesYears(t) == t # <<>> /\ yearsMatch(t).matched

\* C18 as stated: getSearchDisplayText returns the threshold message if and
\* only if the route applies the yearsOfExperience >= N condition to the
\* term, with the same N.
C18_Original ==
    response # NoResponse =>
        LET shown == getSearchDisplayText(Term)
        IN  /\ IsThresholdMessage(shown) <=> AppliesYears(Term)
            /\ AppliesYears(Term) =>
                  ThresholdOf(shown) = parseInt(yearsMatch(Term).group1)

\* C18 as amended: getSearchDisplayText replaces the term by the threshold
\* message if and only if the route applies the yearsOfExperience >= N
\* condition to the term, with the same N, and a successful response then
\* counts the advocates with at least N years; every other term is displayed
\* as typed, also one that reads like a threshold message.
C18_ThresholdForYearsTerms ==
    response # NoResponse =>
        LET shown == getSearchDisplayText(Term)
        IN  /\ shown # Term <=> AppliesYears(Term)
            /\ AppliesYears(Term) =>
                  /\ IsThresholdMessage(shown)
                  /\ ThresholdOf(shown) = parseInt(yearsMatch(Term).group1)
                  /\ Ok => response.body.total =
                              Num(Cardinality(AtLeastYears(ThresholdOf(shown).val)))
            /\ ~AppliesYears(Term) =>
                  \A i \in MatchingSet(Term) : TextConditions(Term, Table[i])

C18_Witness ==
    /\ Ok
    /\ Term = <<"2", " ", "Y", "e", "a", "r", "s", " ", "O", "f", " ", "E", "x",
                "p", "e", "r", "i", "e", "n", "c", "e">>
    /\ getSearchDisplayText(Term) = <<"2">> \o OrMoreYears
    /\ response.body.total = Num(Cardinality(AtLeastYears(2)))
    /\ response.body.total.val < Len(Table)

\* The term occurs, ignoring letter case, in one of the seven fields.
AnyFieldContains(a, term) ==
    \/ NameCityDegreeContains(a, term)
    \/ ContainsIgnoreCase(ToText(a.phoneNumber), term)
    \/ ContainsIgnoreCase(ToText(a.yearsOfExperience), term)
    \/ \E k \in 1..Len(a.specialties) : ContainsIgnoreCase(a.specialties[k], term)

\* The advocates one of whose fields contains the term, for every term of the
\* model.
ContainingAnyField ==
    [t \in SearchTerms |-> {i \in 1..Len(Table) : AnyFieldContains(Table[i], t)}]

\* C19: for a non-empty term that is not a years expression, an advocate is
\* in the matching set if and only if the term occurs, ignoring letter case,
\* as a literal substring of its first name, last name, city, degree, phone
\* number or years of experience in decimal, or one of its specialties.
C19_LiteralSubstring ==
    (Ok /\ Term # <<>> /\ ~yearsMatch(Term).matched) =>
        /\ MatchingSet(Term) = ContainingAnyField[Term]
        /\ response.body.total = Num(Cardinality(ContainingAnyField[Term]))

\* The request for another page of the same term and limit.
OtherPage(q) == [request EXCEPT !.page = Param(ToText(q))]

\* How the database may behave when it serves a request without failing.
OkRuns == {d \in DbRuns : d.fail = "none"}

\* C20: for a fixed term and limit L >= 1 over an unchanged table the pages
\* 1..totalPages partition the matching set: the rows of a page are rows of
\* the matching set, each once, no row of it is on another page, and every
\* matching advocate is on the page of its position.
C20_PagesPartition ==
    (/\ Ok
     /\ IsNum(response.body.limit) /\ response.body.limit.val >= 1
     /\ IsNum(response.body.page) /\ response.body.page.val >= 1
     /\ response.body.page.val <= response.body.totalPages.val) =>
        LET data == response.body.data
            p == response.body.page.val
            tp == response.body.totalPages.val
        IN  /\ Rows(data) \subseteq MatchingSet(Term)
            /\ Cardinality(Rows(data)) = Len(data)
            /\ \A q \in 1..tp, d \in OkRuns :
                  q # p => Rows(GET(OtherPage(q), d).body.data) \cap Rows(data) = {}
            /\ \A d \in [1..tp -> OkRuns] :
                  UNION {Rows(GET(OtherPage(q), d[q]).body.data) : q \in 1..tp}
                      = MatchingSet(Term)

Min(a, b) == IF a < b THEN a ELSE b
Max(a, b) == IF a > b THEN a ELSE b

\* C21: for page P >= 1 and limit L >= 1 a successful response carries
\* exactly min(L, max(0, total - (P - 1) * L)) rows, each of them a row that
\* satisfies the applied filter; a page beyond the last one is empty and
\* carries the total of the filter all the same.
C21_RowsOfPage ==
    (/\ Ok
     /\ IsNum(response.body.page) /\ response.body.page.val >= 1
     /\ IsNum(response.body.limit) /\ response.body.limit.val >= 1) =>
        LET P == response.body.page.val
            L == response.body.limit.val
            t == response.body.total.val
        IN  /\ Len(response.body.data) = Min(L, Max(0, t - (P - 1) * L))
            /\ Rows(response.body.data) \subseteq MatchingSet(Term)
            /\ t = Cardinality(MatchingSet(Term))
            /\ (P - 1) * L >= t => response.body.data = <<>>

\* Page 3 of the unfiltered table with the default limit: beyond the last.
C21_Witness ==
    /\ Ok
    /\ Term = <<>>
    /\ request.page = Param(<<"3">>)
    /\ request.limit = NoParam
    /\ response.body.data = <<>>
    /\ response.body.total = Num(Len(Table))
    /\ response.body.totalPages = Num(2)

\* C22: whatever the page and limit parameters are, the route answers with
\* its 500 error response or with a response whose totalPages is a finite
\* non-negative integer and whose data has at most max(0, limit) rows.
C22_WellFormedOrError ==
    response # NoResponse =>
        \/ response = CatchBlock
        \/ /\ Ok
           /\ IsNum(response.body.totalPages)
           /\ response.body.totalPages.val >= 0
           /\ IsNum(response.body.limit)
           /\ Len(response.body.data) <= Max(0, response.body.limit.val)

\* C23: a click on Reset leaves searchTerm empty and currentPage 1, and no
\* request is issued afterwards for the search term of before the click: the
\* fetch effect has nothing to issue as long as the debounced term is not
\* the empty one.
C23_ResetDropsTerm ==
    [][onReset =>
          /\ searchTerm' = <<>>
          /\ currentPage' = 1
          /\ ~(FetchDepsChanged' /\ debouncedValue' # <<>>)]_vars

\* A step of the user.
UserAction ==
    \/ \E v \in TypedTerms : onSearchChange(v)
    \/ onReset
    \/ onPreviousPage
    \/ onNextPage

\* No request whose signal is not aborted is waiting for its answer.
AllAnswered ==
    \A i \in 1..Len(requests) : InFlight(requests[i]) => requests[i].aborted

\* The messages of a failure, by its kind.
FailureMessages(outcome) ==
    IF outcome = "http"
    THEN {"Failed to fetch advocates: " \o st : st \in StatusTexts}
    ELSE {"Failed to fetch"}

\* The page is at rest and displays the outcome of the request for
\* (searchTerm, currentPage).
Settled ==
    /\ ~loading
    /\ debouncedValue = searchTerm
    /\ Issued
    /\ Latest.search = searchTerm
    /\ Latest.page = currentPage
    /\ \/ /\ Latest.outcome = "ok"
          /\ request = HttpRequest(Latest)
          /\ response.status = 200
          /\ advocates = response.body.data
          /\ total = response.body.total
          /\ totalPages = response.body.totalPages
          /\ error.null
       \/ /\ Failed(Latest)
          /\ ~error.null
          /\ error.message \in FailureMessages(Latest.outcome)

\* C24: if the user stops interacting and every request that is not aborted
\* is eventually answered, the page ends up with loading false, the debounced
\* term equal to searchTerm, and advocates, total and totalPages those of
\* the response, or error that of the failure, for (searchTerm, currentPage).
\* (The third premise keeps to the behaviours in which the bound on the
\* number of requests does not hold back a timeout.)
C24_Quiescence ==
    (/\ <>[][~UserAction]_vars
     /\ []<>AllAnswered
     /\ [](timer.pending => RequestsLeft)) => <>[]Settled

\* The page at rest on page 1 of a term that was typed on page 2.
C24_Witness ==
    /\ Settled
    /\ Quiescent
    /\ searchTerm = <<"J", "o">>
    /\ currentPage = 1
    /\ Len(requests) = 4
    /\ requests[3].page = 2
    /\ requests[3].outcome = "abort"
    /\ Latest.outcome = "ok"
    /\ Len(advocates) = 5

\* A step in which a request fails, and one in which a request succeeds.
FailureStep ==
    \E i \in 1..Len(requests) : InFlight(requests[i]) /\ Failed(requests'[i])

SuccessStep ==
    \E i \in 1..Len(requests) :
        InFlight(requests[i]) /\ requests'[i].outcome = "ok"

\* C25: a failed request leaves the displayed data unchanged and a later
\* request clears the failure: a failure that is not an abort sets error and
\* leaves advocates, total, totalPages and currentPage as they were, every
\* request newly issued sets error to null, and after a successful response
\* no error is displayed.
C25_FailureKeepsData ==
    /\ [][FailureStep =>
              /\ ~error'.null
              /\ UNCHANGED <<advocates, total, totalPages, currentPage>>]_vars
    /\ [][Len(requests') > Len(requests) => error'.null]_vars
    /\ [][SuccessStep => error'.null]_vars
    /\ []((Issued /\ Latest.outcome = "ok") => error.null)

\* A request failed with a list on display, and the next one succeeded.
C25_Witness ==
    /\ Len(requests) >= 3
    /\ requests[1].outcome = "ok"
    /\ Failed(requests[Len(requests) - 1])
    /\ Latest.outcome = "ok"
    /\ error.null
    /\ advocates # <<>>
    /\ ~loading

(***************************************************************************)
(* Property of the page with client-side filtering (checked under          *)
(* FilterSpec).                                                            *)
(***************************************************************************)
\* C26: under any interleaving of keystrokes, Reset clicks and the arrival
\* of the response to the initial fetch, filteredAdvocates is the list of the
\* advocates that match the current searchTerm (all of them when it is
\* empty).
C26_FilteredMatchesTerm ==
    filteredAdvocates = filter(advocates, searchTerm)

====
